---- MODULE Spec2Model ----
(***************************************************************************)
(* module-query and check-activation (p3/apps/moduleQuery.py and           *)
(* p3/apps/checkActivation.py) as one state machine.                       *)
(*                                                                         *)
(* A behaviour is one run of main() of one of the two programs, from the   *)
(* point where parse_args has returned, under Python 2 semantics (the      *)
(* sources use str.translate(None, ..) and dict.iteritems) and with        *)
(* MODULE_QUERY_DEBUG unset.  The database, the shell started by           *)
(* os.system and the terminal's interrupt key are the environment: their   *)
(* answers are chosen nondeterministically.                                *)
(***************************************************************************)
EXTENDS Integers, Sequences, FiniteSets, TLC

(***************************************************************************)
(* Bounds of the model.                                                    *)
(***************************************************************************)
MaxFlavors == 3
MaxReports == 2
MaxBuilds == 3

(***************************************************************************)
(* Program constants.                                                      *)
(***************************************************************************)
MAX_ATTEMPTS == 3
CONNECTION_WAIT == 2
SQL_HOST == "rcdb-internal"

FlavorNames == {"HeLmod CentOS 7", "Easy Build"}
Searches == {"gcc", ""}
Titles == {"gcc", "openmpi"}
Stacks == {"Core", "Comp"}
ExitStatuses == {0, 1, 127}

\* connection = None is handle 0; handle k is the connection returned by the
\* k-th call of MySQLdb.connect.
None == 0

(***************************************************************************)
(* Query Builder: the SQL text is a sequence of text fragments, the bound  *)
(* values are strings.                                                     *)
(***************************************************************************)
RECURSIVE Join(_, _)
Join(sep, items) ==
    IF Len(items) = 0 THEN <<>>
    ELSE IF Len(items) = 1 THEN <<items[1]>>
    ELSE <<items[1], sep>> \o Join(sep, Tail(items))

Term(s) == "%" \o s \o "%"

\* The flavor names written into the IN-clause instead of placeholders.
FormatStringsInterpolated(names) == Join(",", names)

\* format_strings = ','.join(['%s'] * len(build_stack_names))
FormatStrings(names) == Join(",", [k \in 1..Len(names) |-> "%s"])

NameSql(in_clause) ==
    <<"select br.* from build_report br where br.build_name like", "%s",
      "and br.build_stack_name in", "(">> \o in_clause \o
    <<")", "order by app_name, br.build_order">>

FullTextSql(in_clause) ==
    <<"select br.* from build_report br where br.report_text like", "%s",
      "and br.build_stack_name in", "(">> \o in_clause \o
    <<")", "order by app_name, br.build_order">>

fetchBuildReportsSql(names, ft) ==
    IF ft THEN FullTextSql(FormatStrings(names)) ELSE NameSql(FormatStrings(names))

fetchBuildActivationSql(names) ==
    <<"select b.name, b.activation from build b inner join build_stack bs on bs.id = b.build_stack_id where b.name like",
      "%s", "and bs.name in", "(">> \o FormatStrings(names) \o <<")">>

Wheres(term, names) == <<term>> \o names

(***************************************************************************)
(* Report documents (the JSON text of build_report.report_text).  A        *)
(* document that does not parse has ok = FALSE.  has is the set of the     *)
(* optional keys that are present; the value of an absent key is never     *)
(* read without a KeyError.                                                *)
(***************************************************************************)
OptionalKeys == {"run_dependencies", "comments", "preferred_build"}

Doc(t, s, p, h, rd, c) ==
    [ok |-> TRUE, title |-> t, build_stack |-> s, preferred_build |-> p,
     has |-> h, run_dependencies |-> rd, comments |-> c]

Malformed ==
    [ok |-> FALSE, title |-> "", build_stack |-> "", preferred_build |-> FALSE,
     has |-> {}, run_dependencies |-> <<>>, comments |-> ""]

FullDocs ==
    {Doc(t, s, p, OptionalKeys, <<"zlib">>, "note") :
        t \in Titles, s \in Stacks, p \in BOOLEAN}

VariantDocs ==
    {Doc("gcc", "Core", FALSE, OptionalKeys \ {"run_dependencies"}, <<>>, "note"),
     Doc("gcc", "Core", FALSE, OptionalKeys \ {"comments"}, <<"zlib">>, ""),
     Doc("gcc", "Core", FALSE, OptionalKeys \ {"preferred_build"}, <<"zlib">>, "note"),
     Doc("gcc", "Core", FALSE, OptionalKeys, <<>>, "note"),
     Doc("gcc", "Core", FALSE, OptionalKeys, <<"zlib">>, " ")}

Docs == FullDocs \cup VariantDocs \cup {Malformed}

SeqsUpTo(S, n) == UNION {[1..k -> S] : k \in 0..n}

\* The rows check-activation fetches: build k has name k and activation k.
Builds(n) == [k \in 1..n |-> [name |-> k, activation |-> k]]

(***************************************************************************)
(* State.                                                                  *)
(***************************************************************************)
VARIABLES
    prog,                 \* "module-query" or "check-activation"
    search,               \* args.build_name / args.search
    build_stack_names,    \* the --flavors list after re.split
    fulltext,             \* args.full_text (module-query only)
    pc,                   \* where the run stands
    sql, wheres,          \* locals of fetchBuildReports / fetchBuildActivation
    connection,           \* None or the handle MySQLdb.connect returned
    connection_attempts,  \* the loop counter
    connects,             \* calls of MySQLdb.connect made so far
    waited,               \* total time slept in the retry loop
    executed,             \* the calls of cursor.execute: connection, sql, parameters
    fetched,              \* the fetch function has returned its rows to main
    buildreports,         \* the fetched rows (buildreports / builds)
    i,                    \* check-activation: index of the next build of the for loop
    stdout, stderr,       \* what has been written to the two streams
    oslog,                \* what the shells started by os.system have executed
    renderer,             \* the renderers main has called
    rc,                   \* <<>> until main returns, then <<return value>>
    sigint,               \* a keyboard interrupt has arrived
    kbdint                \* KeyboardInterrupt has been raised in the interpreter

vars == <<prog, search, build_stack_names, fulltext, pc, sql, wheres, connection,
          connection_attempts, connects, waited, executed, fetched,
          buildreports, i, stdout, stderr, oslog, renderer, rc, sigint, kbdint>>

args == <<prog, search, build_stack_names, fulltext>>
rowvars == <<fetched, buildreports>>
dbvars == <<sql, wheres, connection, connection_attempts, connects, waited, executed>>
outvars == <<stdout, stderr, oslog, renderer>>
sigvars == <<sigint, kbdint>>

InitCommon ==
    /\ pc = "start"
    /\ sql = <<>> /\ wheres = <<>>
    /\ connection = None /\ connection_attempts = 0 /\ connects = 0 /\ waited = 0
    /\ executed = <<>>
    /\ fetched = FALSE /\ buildreports = <<>> /\ i = 1
    /\ stdout = <<>> /\ stderr = <<>> /\ oslog = <<>> /\ renderer = <<>>
    /\ rc = <<>>
    /\ sigint = FALSE /\ kbdint = FALSE

\* A run of either program with one or two flavors.
Init ==
    /\ prog \in {"module-query", "check-activation"}
    /\ search = "gcc"
    /\ build_stack_names \in {<<"HeLmod CentOS 7">>, <<"HeLmod CentOS 7", "Easy Build">>}
    /\ fulltext \in (IF prog = "module-query" THEN BOOLEAN ELSE {FALSE})
    /\ InitCommon

(***************************************************************************)
(* Exceptions and main's handlers.                                         *)
(***************************************************************************)
Exc(has_user_msg, user_msg, str) ==
    [has_user_msg |-> has_user_msg, user_msg |-> user_msg, str |-> str]

ConnectionError == Exc(TRUE, "Unable to connect to " \o SQL_HOST, "")
QueryError == Exc(FALSE, "", "OperationalError")
ReportParseError ==
    Exc(TRUE, "Unable to parse the build report for this module.  Please report to rchelp.",
        "ValueError")
KeyError(key) == Exc(FALSE, "", key)

\* The handler with return 1 for return 2.
MainExceptReturnsOne(e) ==
    /\ stderr' = stderr \o <<[kind |-> IF e.has_user_msg THEN "user_msg" ELSE "traceback",
                               text |-> IF e.has_user_msg THEN e.user_msg ELSE e.str],
                              [kind |-> "hint", text |-> "  for help use --help"]>>
    /\ rc' = <<1>>
    /\ pc' = "done"

\* except Exception as e: ... return 2
ErrorLines(e) ==
    <<[kind |-> IF e.has_user_msg THEN "user_msg" ELSE "traceback",
       text |-> IF e.has_user_msg THEN e.user_msg ELSE e.str],
      [kind |-> "hint", text |-> "  for help use --help"]>>

MainExcept(e) ==
    /\ stderr' = stderr \o ErrorLines(e)
    /\ rc' = <<2>>
    /\ pc' = "done"

\* except KeyboardInterrupt: return 0
MainKeyboardInterrupt ==
    /\ rc' = <<0>>
    /\ pc' = "done"

(***************************************************************************)
(* fetchBuildReports / fetchBuildActivation.  The two functions differ in  *)
(* the query text only: lines 114-138 of moduleQuery.py are lines 66-90 of *)
(* checkActivation.py.                                                     *)
(***************************************************************************)
\* Lines 86-116: the query text, connection = None, connection_attempts = 0.
FetchBegin ==
    /\ pc = "start"
    /\ sql' = IF prog = "module-query"
              THEN fetchBuildReportsSql(build_stack_names, fulltext)
              ELSE fetchBuildActivationSql(build_stack_names)
    /\ connection' = None
    /\ connection_attempts' = 0
    /\ pc' = "loop"
    /\ UNCHANGED <<args, wheres, connects, waited, executed, rowvars, i,
                   outvars, rc, sigvars>>

\* The loop condition with <= for <: one attempt too many.
LoopCondOffByOne == connection = None /\ connection_attempts <= MAX_ATTEMPTS

\* while connection is None and connection_attempts < MAX_ATTEMPTS
LoopCond == connection = None /\ connection_attempts < MAX_ATTEMPTS

\* connection = MySQLdb.connect(**SQL_DSN): it returns a handle or raises.
Connect ==
    /\ pc = "loop" /\ LoopCond
    /\ connects' = connects + 1
    /\ \E ok \in BOOLEAN :
          IF ok THEN connection' = connects + 1 /\ pc' = "loop"
                ELSE connection' = connection /\ pc' = "sleep"
    /\ UNCHANGED <<args, sql, wheres, connection_attempts, waited, executed,
                   rowvars, i, outvars, rc, sigvars>>

\* except Exception: time.sleep(CONNECTION_WAIT); connection_attempts += 1
Sleep ==
    /\ pc = "sleep"
    /\ waited' = waited + CONNECTION_WAIT
    /\ connection_attempts' = connection_attempts + 1
    /\ pc' = "loop"
    /\ UNCHANGED <<args, sql, wheres, connection, connects, executed, rowvars,
                   i, outvars, rc, sigvars>>

\* if not connection: raise e (with user_msg), which main's handler reports.
ConnectFailed ==
    /\ pc = "loop" /\ ~LoopCond
    /\ connection = None
    /\ MainExcept(ConnectionError)
    /\ UNCHANGED <<args, dbvars, rowvars, i, stdout, oslog, renderer, sigvars>>

\* cursor = connection.cursor(); wheres = [term] + build_stack_names;
\* cursor.execute(sql, wheres) is called.
Execute ==
    /\ pc = "loop" /\ ~LoopCond
    /\ connection # None
    /\ wheres' = Wheres(Term(search), build_stack_names)
    /\ executed' = Append(executed, [conn |-> connection, sql |-> sql, params |-> wheres'])
    /\ pc' = "query"
    /\ UNCHANGED <<args, sql, connection, connection_attempts, connects, waited,
                   rowvars, i, outvars, rc, sigvars>>

\* The rows the database may answer with.
Rows ==
    IF prog = "module-query" THEN SeqsUpTo(Docs, MaxReports)
    ELSE {Builds(n) : n \in 0..MaxBuilds}

\* cursor.execute and cursor.fetchall return: the rows are returned to main.
QueryReturn ==
    /\ pc = "query"
    /\ buildreports' \in Rows
    /\ fetched' = TRUE
    /\ pc' = "fetched"
    /\ UNCHANGED <<args, dbvars, i, outvars, rc, sigvars>>

\* cursor.execute raises: the exception has no user_msg.
QueryFails ==
    /\ pc = "query"
    /\ MainExcept(QueryError)
    /\ UNCHANGED <<args, dbvars, rowvars, i, stdout, oslog, renderer, sigvars>>

\* len(rows) == 0: the message on standard error, return 1.
NoMatch ==
    /\ pc = "fetched"
    /\ Len(buildreports) = 0
    /\ stderr' = Append(stderr, [kind |-> "nomatch", text |-> "Unable to find a match",
                                 search |-> search, flavors |-> build_stack_names])
    /\ rc' = <<1>>
    /\ pc' = "done"
    /\ UNCHANGED <<args, dbvars, rowvars, i, stdout, oslog, renderer, sigvars>>

(***************************************************************************)
(* Report Renderer.  A rendered report is the record of its parts; the     *)
(* name of the build of row k is k.  The optional build_stack_activation   *)
(* note and the word wrapping are left out.                                *)
(***************************************************************************)
\* str.strip() on the comments of the model: " " is the whitespace-only one.
Strip(c) == IF c = " " THEN "" ELSE c

\* "comments" in br and br["comments"] and br["comments"].strip() != ""
BuildComments(br) ==
    IF "comments" \in br.has /\ br.comments # "" /\ Strip(br.comments) # ""
    THEN br.comments ELSE ""

\* printDetailReport: the exception it raises (at most one) and what it prints.
printDetailReport(br, name) ==
    IF ~br.ok THEN [exc |-> <<ReportParseError>>, out |-> <<>>]
    ELSE IF "run_dependencies" \notin br.has
    THEN [exc |-> <<KeyError("run_dependencies")>>, out |-> <<>>]
    ELSE [exc |-> <<>>,
          out |-> <<[kind |-> "detail", app_name |-> br.title, build_name |-> name,
                     build_stack |-> br.build_stack,
                     commentsmessage |-> BuildComments(br),
                     dependencymessage |-> br.run_dependencies]>>]

\* One iteration of the parsing loop of printConsolidatedReport: json.loads,
\* then br["preferred_build"].
RowError(br) ==
    IF ~br.ok THEN <<ReportParseError>>
    ELSE IF "preferred_build" \notin br.has THEN <<KeyError("preferred_build")>>
    ELSE <<>>

\* The loop fails fast on the first row that raises.
FirstError(rows) ==
    LET bad == {k \in 1..Len(rows) : RowError(rows[k]) # <<>>}
    IN IF bad = {} THEN <<>>
       ELSE RowError(rows[CHOOSE k \in bad : \A j \in bad : k <= j])

\* preferredbuild of one iteration.
PreferredBuild(br) == IF br.preferred_build THEN "* " ELSE ""

\* preferredbuildexplanation is assigned afresh in every iteration of the
\* parsing loop and read after the loop, in the printing loop.
PreferredBuildExplanation(rows) ==
    IF rows[Len(rows)].preferred_build THEN "* denotes preferred build." ELSE ""

\* vstr of row k.
VersionLine(br, k) ==
    [preferredbuild |-> PreferredBuild(br), moduletitle |-> k,
     buildcomments |-> BuildComments(br)]

\* apps[app_name]["build_stacks"][build_stack]: the version lines appended, in
\* row order, from row k on.
RECURSIVE VersionLines(_, _, _, _)
VersionLines(rows, t, st, k) ==
    IF k > Len(rows) THEN <<>>
    ELSE (IF rows[k].title = t /\ rows[k].build_stack = st
          THEN <<VersionLine(rows[k], k)>> ELSE <<>>)
         \o VersionLines(rows, t, st, k + 1)

\* The block printed for application t.  example and exampleflavor are the
\* moduletitle and buildstack left by the last iteration of the parsing loop.
Block(rows, t) ==
    [app_name |-> t,
     build_stacks |->
        [st \in {rows[k].build_stack : k \in {j \in 1..Len(rows) : rows[j].title = t}}
            |-> VersionLines(rows, t, st, 1)],
     example |-> Len(rows),
     exampleflavor |-> rows[Len(rows)].build_stack,
     preferredbuildexplanation |-> PreferredBuildExplanation(rows)]

\* printConsolidatedReport: one block per key of apps; the order in which a
\* Python 2 dict yields its keys is not modelled (the blocks are a set).
printConsolidatedReport(rows) ==
    IF FirstError(rows) # <<>> THEN [exc |-> FirstError(rows), out |-> <<>>]
    ELSE [exc |-> <<>>,
          out |-> <<[kind |-> "consolidated",
                     blocks |-> {Block(rows, rows[k].title) : k \in 1..Len(rows)}]>>]

\* main after a renderer has returned or raised.
AfterRender(r) ==
    IF r.exc # <<>>
    THEN MainExcept(r.exc[1]) /\ stdout' = stdout
    ELSE /\ stdout' = stdout \o r.out
         /\ rc' = <<0>>
         /\ pc' = "done"
         /\ stderr' = stderr

\* The two branches exchanged.
ChooseRendererSwapped(n) == IF n = 1 THEN "consolidated" ELSE "detail"

\* The report shape for n > 0 rows: if len(buildreports) == 1: detail, else:
\* consolidated.
ChooseRenderer(n) == IF n = 1 THEN "detail" ELSE "consolidated"

\* if len(buildreports) == 1: printDetailReport(buildreports[0], ..); return 0
RenderDetail ==
    /\ prog = "module-query" /\ pc = "fetched"
    /\ Len(buildreports) # 0
    /\ ChooseRenderer(Len(buildreports)) = "detail"
    /\ renderer' = Append(renderer, "detail")
    /\ AfterRender(printDetailReport(buildreports[1], 1))
    /\ UNCHANGED <<args, dbvars, rowvars, i, oslog, sigvars>>

\* else: printConsolidatedReport(buildreports, ..); return 0
RenderConsolidated ==
    /\ prog = "module-query" /\ pc = "fetched"
    /\ Len(buildreports) # 0
    /\ ChooseRenderer(Len(buildreports)) = "consolidated"
    /\ renderer' = Append(renderer, "consolidated")
    /\ AfterRender(printConsolidatedReport(buildreports))
    /\ UNCHANGED <<args, dbvars, rowvars, i, oslog, sigvars>>

(***************************************************************************)
(* Activation Verifier (check-activation main, lines 126-137).             *)
(***************************************************************************)
\* The command line with ";" for "&&": the activation runs whatever the purge did.
ShellEventsSemicolon(build, purge_status, act_status) ==
    <<[op |-> "purge", build |-> build.name, env |-> "inherited", status |-> purge_status],
      [op |-> "activate", build |-> build.name,
       env |-> IF purge_status = 0 THEN "purged" ELSE "inherited", status |-> act_status]>>

\* What the shell started for "module purge && {activation} {verbosestr}"
\* executes: the purge, and the activation only if the purge exited 0.  A
\* shell starts in the module environment the Python process inherited.
ShellEvents(build, purge_status, act_status) ==
    <<[op |-> "purge", build |-> build.name, env |-> "inherited", status |-> purge_status]>>
    \o (IF purge_status = 0
        THEN <<[op |-> "activate", build |-> build.name, env |-> "purged",
                status |-> act_status]>>
        ELSE <<>>)

\* The exit status of that command line.
ShellStatus(purge_status, act_status) ==
    IF purge_status = 0 THEN act_status ELSE purge_status

\* os.system returns the 16-bit wait status: the exit status in the high byte.
WaitStatus(exit_status) == (exit_status * 256) % 65536

\* The test with <= 256 for == 0: exit status 1 counts as a success.
ResultLenient(wait_status) == IF wait_status <= 256 THEN "Success" ELSE "Fail"

\* result = 'Fail'; if os.system(..) == 0: result = 'Success'
Result(wait_status) == IF wait_status = 0 THEN "Success" ELSE "Fail"

\* for build in builds: the "Attempting ..." line is written and os.system
\* starts the shell.
SystemStart ==
    /\ prog = "check-activation" /\ pc = "fetched"
    /\ Len(buildreports) # 0
    /\ i <= Len(buildreports)
    /\ stdout' = Append(stdout, [kind |-> "attempt", build |-> buildreports[i].name,
                                 text |-> "Attempting"])
    /\ pc' = "system"
    /\ UNCHANGED <<args, dbvars, rowvars, i, stderr, oslog, renderer, rc, sigvars>>

\* os.system returns; the result line is written; the loop goes on.
SystemReturn ==
    /\ pc = "system"
    /\ \E purge_status \in ExitStatuses, act_status \in ExitStatuses :
          /\ oslog' = oslog \o ShellEvents(buildreports[i], purge_status, act_status)
          /\ stdout' = Append(stdout,
                 [kind |-> "result", build |-> buildreports[i].name,
                  text |-> Result(WaitStatus(ShellStatus(purge_status, act_status)))])
    /\ i' = i + 1
    /\ pc' = "fetched"
    /\ UNCHANGED <<args, dbvars, rowvars, stderr, renderer, rc, sigvars>>

\* The final step gating the exit code on the outcomes: 1 if a build failed.
FinalPurgeGating ==
    /\ prog = "check-activation" /\ pc = "fetched"
    /\ Len(buildreports) # 0
    /\ i > Len(buildreports)
    /\ \E purge_status \in ExitStatuses :
          oslog' = Append(oslog, [op |-> "purge", build |-> 0, env |-> "inherited",
                                  status |-> purge_status])
    /\ rc' = IF \E k \in DOMAIN stdout : stdout[k].text = "Fail" THEN <<1>> ELSE <<0>>
    /\ pc' = "done"
    /\ UNCHANGED <<args, dbvars, rowvars, i, stdout, stderr, renderer, sigvars>>

\* After the loop: os.system("module purge"); return 0
FinalPurge ==
    /\ prog = "check-activation" /\ pc = "fetched"
    /\ Len(buildreports) # 0
    /\ i > Len(buildreports)
    /\ \E purge_status \in ExitStatuses :
          oslog' = Append(oslog, [op |-> "purge", build |-> 0, env |-> "inherited",
                                  status |-> purge_status])
    /\ rc' = <<0>>
    /\ pc' = "done"
    /\ UNCHANGED <<args, dbvars, rowvars, i, stdout, stderr, renderer, sigvars>>

(***************************************************************************)
(* The keyboard interrupt (SIGINT).                                        *)
(***************************************************************************)
\* The interpreter is running Python code or a call that the signal ends
\* (connect, sleep, the query, rendering, the for loop between two commands):
\* KeyboardInterrupt is raised.  It is no Exception, so the except clause of
\* the retry loop does not catch it; main's except KeyboardInterrupt does.
\* During rendering it is taken before the first print.
InterruptiblePoint ==
    \/ pc = "loop" /\ LoopCond
    \/ pc = "sleep"
    \/ pc = "query"
    \/ pc = "fetched" /\ Len(buildreports) # 0
         /\ (prog = "module-query" \/ i <= Len(buildreports))

KeyboardInterrupt ==
    /\ InterruptiblePoint
    /\ sigint' = TRUE
    /\ kbdint' = TRUE
    /\ MainKeyboardInterrupt
    /\ UNCHANGED <<args, dbvars, rowvars, i, outvars>>

\* os.system is C system(), which ignores SIGINT in the calling process while
\* the command runs: no KeyboardInterrupt is raised, os.system goes on waiting
\* for the shell and the for loop continues with its status.
InterruptDuringSystem ==
    /\ pc = "system"
    /\ ~sigint
    /\ sigint' = TRUE
    /\ UNCHANGED <<args, dbvars, rowvars, i, outvars, rc, pc, kbdint>>

(***************************************************************************)
(* Specifications.                                                         *)
(***************************************************************************)
Next ==
    \/ FetchBegin \/ Connect \/ Sleep \/ ConnectFailed \/ Execute
    \/ QueryReturn \/ QueryFails \/ NoMatch
    \/ RenderDetail \/ RenderConsolidated
    \/ SystemStart \/ SystemReturn \/ FinalPurge
    \/ KeyboardInterrupt \/ InterruptDuringSystem

Spec == Init /\ [][Next]_vars

\* The query builder and the connection loop on every search string and every
\* flavor list of 1..MaxFlavors names, up to the call of cursor.execute.
InitQuery ==
    /\ prog \in {"module-query", "check-activation"}
    /\ search \in Searches
    /\ build_stack_names \in SeqsUpTo(FlavorNames, MaxFlavors) \ {<<>>}
    /\ fulltext \in (IF prog = "module-query" THEN BOOLEAN ELSE {FALSE})
    /\ InitCommon

NextQuery == FetchBegin \/ Connect \/ Sleep \/ ConnectFailed \/ Execute

SpecQuery == InitQuery /\ [][NextQuery]_vars

(***************************************************************************)
(* Properties.                                                             *)
(***************************************************************************)
Range(f) == {f[k] : k \in DOMAIN f}

Count(seq, x) == Cardinality({k \in DOMAIN seq : seq[k] = x})

ConnectionErrorReported ==
    \E k \in DOMAIN stderr :
        /\ stderr[k].kind = "user_msg"
        /\ stderr[k].text = "Unable to connect to " \o SQL_HOST

\* C1: the connection loop of either program calls connect at most 3 times,
\* one call after the other.  The connection error, whose message names the
\* configured host, is reported only after exactly 3 failed calls, and an
\* uninterrupted run in which all 3 calls failed ends with it (exit code 2,
\* no query).  When call k succeeds no call follows it, and the query is
\* executed, once, on the connection call k returned.
C1_ConnectionRetry ==
    /\ connects <= MAX_ATTEMPTS
    /\ connection # None => connects = connection
    /\ connection_attempts <= connects /\ connects <= connection_attempts + 1
    /\ waited = CONNECTION_WAIT * connection_attempts
    /\ ConnectionErrorReported =>
          connects = MAX_ATTEMPTS /\ connection = None /\ rc = <<2>> /\ executed = <<>>
    /\ (pc = "done" /\ ~kbdint /\ connection = None) =>
          ConnectionErrorReported /\ connects = MAX_ATTEMPTS
    /\ \A k \in DOMAIN executed : executed[k].conn = connection /\ connection # None
    /\ Len(executed) <= 1
    /\ (connection # None /\ (pc \in {"query", "fetched", "system"} \/ (pc = "done" /\ ~kbdint)))
          => Len(executed) = 1

\* C1 witness: three failed calls, then the connection error.
C1_Witness ==
    pc = "done" /\ connects = 3 /\ connection = None /\ ConnectionErrorReported

\* The part of a query text between "(" and ")": the IN-clause.
InClause(q) ==
    LET a == CHOOSE k \in DOMAIN q : q[k] = "("
        b == CHOOSE k \in DOMAIN q : q[k] = ")"
    IN SubSeq(q, a + 1, b - 1)

\* C5: for a flavor list of N >= 1 names the query of fetchBuildReports (name
\* and full-text mode) and of fetchBuildActivation has exactly N placeholders
\* in its IN-clause (N + 1 in all, with the one of LIKE); cursor.execute gets
\* that text and N + 1 parameters: the search wrapped in % first, then the N
\* names in their order; no fragment of the text is the search, the wrapped
\* search or a flavor name.
C5_Parameterized ==
    LET n == Len(build_stack_names) IN
    /\ pc # "start" =>
          /\ Count(InClause(sql), "%s") = n
          /\ Count(sql, "%s") = n + 1
          /\ Range(sql) \cap ({search, "%" \o search \o "%"} \cup Range(build_stack_names)) = {}
    /\ \A k \in DOMAIN executed :
          /\ executed[k].sql = sql
          /\ Len(executed[k].params) = n + 1
          /\ executed[k].params[1] = "%" \o search \o "%"
          /\ \A j \in 1..n : executed[k].params[j + 1] = build_stack_names[j]

\* C5 witness: a query with three flavors, the first two different, has been
\* handed to cursor.execute.
C5_Witness ==
    /\ Len(executed) = 1
    /\ Len(build_stack_names) = 3
    /\ build_stack_names[1] # build_stack_names[2]

ReportPrinted ==
    /\ Len(stdout) = 1
    /\ stdout[1].kind = ChooseRenderer(Len(buildreports))

ErrorReported ==
    \E k \in DOMAIN stderr : stderr[k].kind \in {"user_msg", "traceback"}

\* C2 as stated: a finished run of module-query returned 0 exactly when at
\* least one build matched and its report was printed, 1 when the query
\* returned no row, and 2 on an error, with a message on standard error.
C2_Original ==
    (prog = "module-query" /\ pc = "done") =>
        /\ rc \in {<<0>>, <<1>>, <<2>>}
        /\ rc = <<0>> <=> (fetched /\ Len(buildreports) >= 1 /\ ReportPrinted)
        /\ rc = <<1>> <=> (fetched /\ Len(buildreports) = 0)
        /\ rc = <<2>> => ErrorReported

\* C2, amended: a finished run of module-query returned 0 exactly when at
\* least one build matched and its report was printed or when a keyboard
\* interrupt ended the run; it returned 1 exactly when the query returned no
\* row; it returned 2 in every other case (connection failure after the
\* retries, query error, a report document that is malformed), with a message
\* on standard error.
C2_ExitCodes ==
    (prog = "module-query" /\ pc = "done") =>
        /\ rc \in {<<0>>, <<1>>, <<2>>}
        /\ rc = <<0>> <=>
              (kbdint \/ (fetched /\ Len(buildreports) >= 1 /\ ReportPrinted))
        /\ rc = <<1>> <=> (fetched /\ Len(buildreports) = 0)
        /\ rc = <<2>> => ErrorReported
        /\ (~kbdint /\ (connection = None \/ ~fetched
                        \/ \E k \in DOMAIN buildreports : ~buildreports[k].ok))
              => rc = <<2>>

\* C2 witness: a run ended by a keyboard interrupt returned 0 with no report.
C2_Witness ==
    prog = "module-query" /\ pc = "done" /\ kbdint /\ rc = <<0>> /\ stdout = <<>>

IsAttempt(m) == m.kind = "attempt"
IsResult(m) == m.kind = "result"
Attempts == SelectSeq(stdout, IsAttempt)
Results == SelectSeq(stdout, IsResult)

\* C3: once the query of check-activation has returned, a finished run has
\* exit code 0 if at least one build matched, whatever the outcomes of the
\* activations, and 1 if none matched; with no match no shell command (no
\* activation, no purge) is ever executed.
C3_ExitCode ==
    (prog = "check-activation" /\ fetched) =>
        /\ pc = "done" => rc = (IF Len(buildreports) >= 1 THEN <<0>> ELSE <<1>>)
        /\ Len(buildreports) = 0 => oslog = <<>> /\ stdout = <<>>

\* C3 witness: at least two builds, every activation failed, exit code 0.
C3_Witness ==
    /\ prog = "check-activation" /\ pc = "done" /\ ~kbdint
    /\ Len(buildreports) >= 2 /\ Len(Results) = Len(buildreports)
    /\ \A k \in DOMAIN Results : Results[k].text = "Fail"
    /\ rc = <<0>>

IsBuildPurge(e) == e.op = "purge" /\ e.build # 0
IsActivate(e) == e.op = "activate"

\* C4: check-activation attempts the builds in result order, each one once
\* (one "Attempting" line, one command line, one result line per build, no
\* retry); the result of a build is Success exactly if its activation command
\* ran and exited with status 0, whatever the other builds did; and a run that
\* no KeyboardInterrupt ended has attempted every build, failed ones included.
C4_Activation ==
    prog = "check-activation" =>
        /\ Len(Attempts) <= Len(buildreports)
        /\ \A k \in DOMAIN Attempts : Attempts[k].build = buildreports[k].name
        /\ Len(Results) = Len(Attempts) - (IF pc = "system" THEN 1 ELSE 0)
        /\ Len(SelectSeq(oslog, IsBuildPurge)) = Len(Results)
        /\ \A k \in DOMAIN Results :
              /\ Results[k].build = buildreports[k].name
              /\ SelectSeq(oslog, IsBuildPurge)[k].build = buildreports[k].name
              /\ Cardinality({j \in DOMAIN oslog :
                     IsActivate(oslog[j]) /\ oslog[j].build = Results[k].build}) <= 1
              /\ Results[k].text \in {"Success", "Fail"}
              /\ Results[k].text = "Success" <=>
                    \E j \in DOMAIN oslog :
                        /\ IsActivate(oslog[j])
                        /\ oslog[j].build = Results[k].build
                        /\ oslog[j].status = 0
        /\ (pc = "done" /\ fetched /\ ~kbdint) => Len(Results) = Len(buildreports)

\* C4 witness: three builds whose commands exit 0, non-zero, 0 are reported
\* Success, Fail, Success.
C4_Witness ==
    /\ prog = "check-activation" /\ pc = "done" /\ ~kbdint
    /\ Len(Results) = 3
    /\ Results[1].text = "Success" /\ Results[2].text = "Fail"
    /\ Results[3].text = "Success"

\* C6 as stated: once a keyboard interrupt has arrived the run is over, ended
\* by KeyboardInterrupt, with exit code 0.
C6_InterruptExitsZero ==
    sigint => (pc = "done" /\ kbdint /\ rc = <<0>>)

\* C7 as stated: module-query renders the detail report for exactly one row
\* and the consolidated report for zero or more than one row, one renderer
\* per run.
C7_Original ==
    (prog = "module-query" /\ pc = "done" /\ fetched /\ ~kbdint) =>
        /\ Len(renderer) = 1
        /\ Len(buildreports) = 1 => renderer = <<"detail">>
        /\ Len(buildreports) # 1 => renderer = <<"consolidated">>

\* C7, amended: module-query calls the detail renderer only for exactly one
\* row and the consolidated renderer only for more than one row; for zero
\* rows no renderer runs (the run ends with exit code 1); a run calls at most
\* one renderer, and exactly one when rows were returned and no keyboard
\* interrupt ended it.
C7_OutputShape ==
    prog = "module-query" =>
        /\ Len(renderer) <= 1
        /\ renderer # <<>> =>
              /\ fetched
              /\ renderer[1] = "detail" <=> Len(buildreports) = 1
              /\ renderer[1] = "consolidated" <=> Len(buildreports) > 1
        /\ (pc = "done" /\ fetched /\ ~kbdint) =>
              /\ Len(buildreports) = 0 => renderer = <<>> /\ rc = <<1>> /\ stdout = <<>>
              /\ Len(buildreports) >= 1 => Len(renderer) = 1

\* C7 witness: the query returned no row and the run ended without a renderer.
C7_Witness ==
    /\ prog = "module-query" /\ pc = "done" /\ fetched /\ ~kbdint
    /\ Len(buildreports) = 0 /\ renderer = <<>>

\* C8 as stated: in a printed consolidated report a version line starts with
\* "* " exactly if its build is preferred, and the block of an application
\* has the legend "* denotes preferred build." exactly if a build of that
\* application is preferred, wherever it stands in the rows; otherwise the
\* legend is empty.
C8_PreferredLegend ==
    prog = "module-query" =>
    \A k \in DOMAIN stdout : stdout[k].kind = "consolidated" =>
        \A b \in stdout[k].blocks :
            /\ \A st \in DOMAIN b.build_stacks : \A j \in DOMAIN b.build_stacks[st] :
                  LET line == b.build_stacks[st][j] IN
                  line.preferredbuild =
                      (IF buildreports[line.moduletitle].preferred_build THEN "* " ELSE "")
            /\ b.preferredbuildexplanation =
                  (IF \E j \in DOMAIN buildreports :
                         /\ buildreports[j].title = b.app_name
                         /\ buildreports[j].preferred_build
                   THEN "* denotes preferred build." ELSE "")

\* C9 as stated: a run of module-query that rendered one or more rows and was
\* not interrupted fails only if a document is malformed: documents that
\* merely lack run_dependencies, comments or preferred_build are rendered.
C9_OptionalFields ==
    (prog = "module-query" /\ pc = "done" /\ fetched /\ ~kbdint
        /\ Len(buildreports) >= 1) =>
        (rc = <<0>> <=> \A k \in DOMAIN buildreports : buildreports[k].ok)

IsFinalPurge(e) == e.op = "purge" /\ e.build = 0

\* C10: in check-activation every activation command that runs is directly
\* preceded, in its own shell, by a purge for the same build that succeeded,
\* and so runs in the purged environment; the final purge is executed exactly
\* once, after the last build has been attempted, whatever the outcomes were,
\* in every run with a match that no KeyboardInterrupt ended; nothing is
\* executed after it.
C10_Purge ==
    prog = "check-activation" =>
        /\ \A k \in DOMAIN oslog : IsActivate(oslog[k]) =>
              /\ k > 1
              /\ oslog[k - 1].op = "purge"
              /\ oslog[k - 1].build = oslog[k].build
              /\ oslog[k - 1].status = 0
              /\ oslog[k].env = "purged"
        /\ \A k \in DOMAIN oslog : IsFinalPurge(oslog[k]) =>
              /\ k = Len(oslog)
              /\ pc = "done"
              /\ Len(Results) = Len(buildreports)
        /\ (pc = "done" /\ fetched /\ ~kbdint /\ Len(buildreports) >= 1) =>
              /\ Len(SelectSeq(oslog, IsFinalPurge)) = 1
              /\ Len(SelectSeq(oslog, IsBuildPurge)) = Len(buildreports)

\* C10 witness: two or more builds, the second activation ran after the first
\* one had run, some build failed, and the final purge has been executed.
C10_Witness ==
    /\ prog = "check-activation" /\ pc = "done" /\ ~kbdint
    /\ Len(buildreports) >= 2
    /\ \E k \in DOMAIN oslog : IsActivate(oslog[k]) /\ oslog[k].build = 1
    /\ \E k \in DOMAIN oslog : IsActivate(oslog[k]) /\ oslog[k].build = 2
    /\ \E k \in DOMAIN Results : Results[k].text = "Fail"
    /\ IsFinalPurge(oslog[Len(oslog)])

\* The grouping of a printed consolidated report out: for the rows rs, one
\* block per distinct title, in each block one group per distinct build_stack
\* of that title's rows, and in each group the version lines of exactly the
\* rows of that title and build_stack, one each, in row order.
Grouped(out, rs) ==
    LET titles == {rs[k].title : k \in DOMAIN rs}
        RowsOf(t, st) == {k \in DOMAIN rs : rs[k].title = t /\ rs[k].build_stack = st}
    IN
    /\ {b.app_name : b \in out.blocks} = titles
    /\ Cardinality(out.blocks) = Cardinality(titles)
    /\ \A b \in out.blocks :
          /\ DOMAIN b.build_stacks =
                {rs[k].build_stack : k \in {j \in DOMAIN rs : rs[j].title = b.app_name}}
          /\ \A st \in DOMAIN b.build_stacks :
                LET lines == b.build_stacks[st] IN
                /\ Len(lines) = Cardinality(RowsOf(b.app_name, st))
                /\ {lines[j].moduletitle : j \in DOMAIN lines} = RowsOf(b.app_name, st)
                /\ \A j1, j2 \in DOMAIN lines :
                      j1 < j2 => lines[j1].moduletitle < lines[j2].moduletitle

\* C11 as stated: for any list of two or more well-formed build reports the
\* consolidated report is produced with exactly one application block per
\* distinct title, one build-flavor group per distinct build_stack of that
\* title, and one version line per report, in the group of its own title and
\* build_stack, in row order.
C11_Grouping ==
    (prog = "module-query" /\ pc = "done" /\ fetched /\ ~kbdint
        /\ Len(buildreports) >= 2
        /\ \A k \in DOMAIN buildreports : buildreports[k].ok) =>
        /\ Len(stdout) = 1
        /\ stdout[1].kind = "consolidated"
        /\ Grouped(stdout[1], buildreports)

\* Every consolidated report that is printed is grouped as C11 says: the
\* lists on which C11_Grouping fails are those for which nothing is printed.
GroupingWhenPrinted ==
    prog = "module-query" =>
        \A k \in DOMAIN stdout :
            stdout[k].kind = "consolidated" => Grouped(stdout[k], buildreports)

\* Two reports with the same title and different build_stack have been printed
\* as one block with two groups.
GroupingWhenPrinted_Witness ==
    /\ prog = "module-query" /\ pc = "done" /\ Len(stdout) = 1
    /\ Len(buildreports) = 2
    /\ buildreports[1].title = buildreports[2].title
    /\ buildreports[1].build_stack # buildreports[2].build_stack
    /\ \E b \in stdout[1].blocks : Cardinality(DOMAIN b.build_stacks) = 2

====
